---- MODULE Spec2Model ----
(***************************************************************************)
(* State-machine model of the refresh logic of sysinfo:                    *)
(*   - linux/network.rs : NetworkData, read_things, update_network and     *)
(*     the NetworkExt accessors get_income / get_outcome;                  *)
(*   - mac/system.rs    : System::refresh_network, refresh_processes,      *)
(*     clear_procs, refresh_process and refresh_cpu.                       *)
(*                                                                         *)
(* Abstractions.  u64 arithmetic is modelled at a reduced width of         *)
(* WordBits bits (TLC integers are 32 bits wide); an unsigned subtraction  *)
(* that underflows either panics (overflow checks on) or wraps modulo      *)
(* 2^WordBits (overflow checks off).  f32 values are modelled as exact     *)
(* rationals plus NaN and the two infinities.                              *)
(***************************************************************************)
EXTENDS Integers, Sequences, FiniteSets, TLC

VARIABLES
    network,        \* System.network : NetworkData
    net_reads,      \* history: the last (at most two) totals read_things returned
    net_fail,       \* history: whether a read failed in the last refresh_network
    ret_income,     \* result of the last get_income() since the last refresh
    ret_outcome,    \* result of the last get_outcome() since the last refresh
    process_list,   \* System.process_list : HashMap<Pid, Process>
    pc,             \* position inside refresh_processes: "idle" or "scan"
    pending,        \* pids of the par_iter fan-out whose worker has not run yet
    entries,        \* the Vec<Process> the fan-out collects
    last,           \* history: the process operation that ran last, with its inputs
    pass,           \* history: pid list and fetch results of the pass that runs or just returned
    known,          \* history: pids in the registry when the last pass returned
    processors,     \* System.processors : Vec<Processor>
    cpu_last,       \* history: the last refresh_cpu, its sample, and the machine's core count
    mem_total,      \* System.mem_total, in KB
    mem_free,       \* System.mem_free, in KB
    swap_total,     \* System.swap_total, in KB
    swap_free,      \* System.swap_free, in KB
    mem_last        \* history: the last refresh_memory and which of its reads succeeded

netVars  == <<network, net_reads, net_fail, ret_income, ret_outcome>>
procVars == <<process_list, pc, pending, entries, last, pass, known>>
cpuVars  == <<processors, cpu_last>>
memVars  == <<mem_total, mem_free, swap_total, swap_free, mem_last>>
vars     == <<netVars, procVars, cpuVars, memVars>>

(***************************************************************************)
(* Bounds                                                                  *)
(***************************************************************************)
WordBits  == 4      \* modelled width of a u64
MaxStat   == 1      \* largest value of one statistics file
NumPids   == 2      \* process ids the OS can report
MaxVal    == 2      \* distinct detail records a fetch can return
MaxCpu    == 2      \* logical cores HW_NCPU can report
MaxSwapKb == 1      \* largest swap size the OS reports, in KB
MaxPages  == 1      \* largest value of one page counter of vm_statistics64
PageSize  == 4096   \* sysconf(_SC_PAGESIZE), in bytes
MemSize   == 12288  \* sysctl hw.memsize, in bytes

Pow2(n) == 2 ^ n
U64Modulus == Pow2(WordBits)

(***************************************************************************)
(* linux/network.rs                                                        *)
(***************************************************************************)
\* entries of /sys/class/net
Ifaces == {"lo", "eth0"}

\* Result<u64, Error> of read_interface_stat: a value, or an error
\* (file missing, unreadable, or its content does not parse).
StatErr == [ok |-> FALSE, value |-> 0]
StatOk(v) == [ok |-> TRUE, value |-> v]
StatResults == {StatErr} \cup {StatOk(v) : v \in 0 .. MaxStat}

\* What the file system answers in one cycle: whether /sys/class/net can be
\* listed, and per interface the result of reading rx_bytes and tx_bytes.
NetProviders == [dir_ok : BOOLEAN, rx : [Ifaces -> StatResults], tx : [Ifaces -> StatResults]]

unwrap_or(r, default) == IF r.ok THEN r.value ELSE default

\* rx += read_interface_stat(..).unwrap_or(0), over the entries in `todo`
RECURSIVE SumStats(_, _)
SumStats(stats, todo) ==
    IF todo = {} THEN 0
    ELSE LET i == CHOOSE x \in todo : TRUE
         IN (SumStats(stats, todo \ {i}) + unwrap_or(stats[i], 0)) % U64Modulus

\* read_things: rx and tx start at 0; every interface adds its statistic, an
\* unreadable statistic adds 0, an unreadable directory adds nothing; the
\* function ends with Ok((rx, tx)) on every path.
read_things(p) ==
    IF p.dir_ok
    THEN [ok |-> TRUE, rx |-> SumStats(p.rx, Ifaces), tx |-> SumStats(p.tx, Ifaces)]
    ELSE [ok |-> TRUE, rx |-> 0, tx |-> 0]

new == [old_in |-> 0, old_out |-> 0, current_in |-> 0, current_out |-> 0]

update_network_noshift(n, r) ==
    IF r.ok
    THEN [n EXCEPT !.current_in = r.rx, !.current_out = r.tx]
    ELSE n

update_network_halfshift(n, r) ==
    IF r.ok
    THEN [old_in |-> n.current_in, old_out |-> n.old_out,
          current_in |-> r.rx, current_out |-> r.tx]
    ELSE n

update_network_swapped(n, r) ==
    IF r.ok
    THEN [old_in |-> n.current_out, old_out |-> n.current_in,
          current_in |-> r.rx, current_out |-> r.tx]
    ELSE n

update_network(n, r) ==
    IF r.ok
    THEN [old_in |-> n.current_in, old_out |-> n.current_out,
          current_in |-> r.rx, current_out |-> r.tx]
    ELSE n

\* The outcomes of the u64 subtraction a - b: exact when a >= b; otherwise a
\* panic (overflow checks on) or the wrapped value (overflow checks off).
NoRet == [state |-> "none", value |-> 0]
Returned(v) == [state |-> "returned", value |-> v]
Panicked == [state |-> "panicked", value |-> 0]

U64Sub(a, b) ==
    IF a >= b THEN {Returned(a - b)}
    ELSE {Panicked, Returned((a - b + U64Modulus) % U64Modulus)}

get_income_of(n) == U64Sub(n.current_in, n.old_in)
get_outcome_of(n) == U64Sub(n.current_out, n.old_out)

\* Whether the cycle met an unreadable directory or an unreadable or
\* malformed statistics file.
ReadFailed(p) ==
    \/ ~p.dir_ok
    \/ \E i \in Ifaces : ~p.rx[i].ok \/ ~p.tx[i].ok

KeepLastTwo(s, x) == IF Len(s) < 2 THEN Append(s, x) ELSE <<s[2], x>>

\* System::refresh_network: network::update_network(&mut self.network).
refresh_network ==
    \E p \in NetProviders :
        LET r == read_things(p) IN
        /\ network' = update_network(network, r)
        /\ net_reads' = IF r.ok THEN KeepLastTwo(net_reads, [rx |-> r.rx, tx |-> r.tx])
                        ELSE net_reads
        /\ net_fail' = ReadFailed(p)
        /\ ret_income' = NoRet
        /\ ret_outcome' = NoRet
        /\ UNCHANGED <<procVars, cpuVars, memVars>>

get_income ==
    /\ ret_income' \in get_income_of(network)
    /\ UNCHANGED <<network, net_reads, net_fail, ret_outcome, procVars, cpuVars, memVars>>

get_outcome ==
    /\ ret_outcome' \in get_outcome_of(network)
    /\ UNCHANGED <<network, net_reads, net_fail, ret_income, procVars, cpuVars, memVars>>

(***************************************************************************)
(* mac/system.rs: the process registry                                     *)
(***************************************************************************)
Pids == 1 .. NumPids
Vals == 1 .. MaxVal

\* Result of the per-pid detail fetch (proc_pidinfo) made by update_process.
FetchNone == [st |-> "none", val |-> 0]
FetchErr == [st |-> "err", val |-> 0]
FetchOk(v) == [st |-> "ok", val |-> v]
FetchResults == {FetchErr} \cup {FetchOk(v) : v \in Vals}

\* A Process: the detail fetched last and the liveness marker `updated`.
Process(pid, v, u) == [pid |-> pid, val |-> v, updated |-> u]

\* has_been_updated(p): returns the marker and resets it.
has_been_updated(p) == [ret |-> p.updated, p |-> [p EXCEPT !.updated = FALSE]]

\* update_process(wrap, pid, ..) -> Result<Option<Process>, ()>.  An entry
\* the registry already holds is updated in place through the Wrap cell and
\* the call returns Ok(None); an unknown pid returns Ok(Some(new process));
\* a failed fetch returns Err(()) and writes nothing.
update_process(list, pid, fetch) ==
    IF fetch.st # "ok"
    THEN [res |-> "Err", p |-> Process(pid, 0, FALSE), list |-> list]
    ELSE IF pid \in DOMAIN list
    THEN [res |-> "OkNone", p |-> Process(pid, 0, FALSE),
          list |-> [list EXCEPT ![pid] = Process(pid, fetch.val, TRUE)]]
    ELSE [res |-> "OkSome", p |-> Process(pid, fetch.val, TRUE), list |-> list]

\* HashMap::insert
insert(list, p) ==
    [q \in DOMAIN list \cup {p.pid} |-> IF q = p.pid THEN p ELSE list[q]]

RECURSIVE insert_all(_, _)
insert_all(list, ps) ==
    IF ps = {} THEN list
    ELSE LET p == CHOOSE x \in ps : TRUE
         IN insert_all(insert(list, p), ps \ {p})

\* System::clear_procs: every entry whose marker was not set is removed; the
\* marker of every entry is reset by has_been_updated.
clear_procs(list) ==
    LET keep == {pid \in DOMAIN list : has_been_updated(list[pid]).ret}
    IN [pid \in keep |-> has_been_updated(list[pid]).p]

\* What the OS answers to refresh_processes: the count of
\* proc_listallpids(null, 0) and the Option<Vec<Pid>> of get_proc_list().
ProcListings ==
    [count : 0 .. NumPids, listed : BOOLEAN, pids : SUBSET Pids]

NoPass == [count |-> 0, listed |-> FALSE, pids |-> {}, fetch |-> [q \in Pids |-> FetchNone]]
Last(op, pid, fetch, ret) == [op |-> op, pid |-> pid, fetch |-> fetch, ret |-> ret]

\* refresh_processes, lines 282-289: returns at once when count < 1 or when
\* get_proc_list() is None; otherwise starts the par_iter fan-out.
\* lines 283-285 and the missing else of line 286: the registry is returned
\* as it is, without merge and without clear_procs.
early_return_sweeps(list) == clear_procs(list)

early_return(list) == list

refresh_processes ==
    /\ pc = "idle"
    /\ \E l \in ProcListings :
        IF l.count < 1 \/ ~l.listed
        THEN /\ pass' = [NoPass EXCEPT !.count = l.count]
             /\ known' = DOMAIN process_list
             /\ last' = Last("refresh_processes", 0, FetchNone, TRUE)
             /\ process_list' = early_return(process_list)
             /\ UNCHANGED <<pc, pending, entries>>
        ELSE /\ pass' = [NoPass EXCEPT !.count = l.count, !.listed = TRUE, !.pids = l.pids]
             /\ pc' = "scan"
             /\ pending' = l.pids
             /\ entries' = {}
             /\ last' = Last("fan_out", 0, FetchNone, TRUE)
             /\ UNCHANGED <<process_list, known>>
    /\ UNCHANGED <<netVars, cpuVars, memVars>>

\* One worker of the fan-out, lines 290-295: update_process for one pid; an
\* Ok(Some(p)) is collected, Ok(None) and Err(_) contribute nothing.
scan_worker ==
    /\ pc = "scan"
    /\ \E pid \in pending, f \in FetchResults :
        LET u == update_process(process_list, pid, f) IN
        /\ process_list' = u.list
        /\ entries' = IF u.res = "OkSome" THEN entries \cup {u.p} ELSE entries
        /\ pending' = pending \ {pid}
        /\ pass' = [pass EXCEPT !.fetch[pid] = f]
        /\ last' = Last("scan_worker", pid, f, u.res # "Err")
    /\ UNCHANGED <<pc, known, netVars, cpuVars, memVars>>

\* The serial tail of refresh_processes, lines 297-300.
merge_entries(list, es) == clear_procs(insert_all(list, es))

merge ==
    /\ pc = "scan"
    /\ pending = {}
    /\ process_list' = merge_entries(process_list, entries)
    /\ known' = DOMAIN process_list'
    /\ entries' = {}
    /\ pc' = "idle"
    /\ last' = Last("refresh_processes", 0, FetchNone, TRUE)
    /\ UNCHANGED <<pending, pass, netVars, cpuVars, memVars>>

\* System::refresh_process(pid) -> bool, lines 304-317.
refresh_process_sweeps(list, pid, fetch) ==
    LET u == update_process(list, pid, fetch) IN
    IF u.res = "OkSome" THEN [list |-> clear_procs(insert(u.list, u.p)), ret |-> TRUE]
    ELSE IF u.res = "OkNone" THEN [list |-> clear_procs(u.list), ret |-> TRUE]
    ELSE [list |-> u.list, ret |-> FALSE]

refresh_process_of(list, pid, fetch) ==
    LET u == update_process(list, pid, fetch) IN
    IF u.res = "OkSome" THEN [list |-> insert(u.list, u.p), ret |-> TRUE]
    ELSE IF u.res = "OkNone" THEN [list |-> u.list, ret |-> TRUE]
    ELSE [list |-> u.list, ret |-> FALSE]

refresh_process ==
    /\ pc = "idle"
    /\ \E pid \in Pids, f \in FetchResults :
        LET r == refresh_process_of(process_list, pid, f) IN
        /\ process_list' = r.list
        /\ last' = Last("refresh_process", pid, f, r.ret)
    /\ pass' = NoPass
    /\ UNCHANGED <<pc, pending, entries, known, netVars, cpuVars, memVars>>

(***************************************************************************)
(* f32 arithmetic, as exact rationals with NaN and the infinities          *)
(***************************************************************************)
Abs(x) == IF x < 0 THEN 0 - x ELSE x

RECURSIVE Gcd(_, _)
Gcd(a, b) == IF b = 0 THEN a ELSE Gcd(b, a % b)

NaN == [k |-> "nan", n |-> 0, d |-> 1]
PosInf == [k |-> "inf", n |-> 1, d |-> 1]
NegInf == [k |-> "inf", n |-> 0 - 1, d |-> 1]

\* the rational n/d, d # 0, in lowest terms with a positive denominator
Ratio(n, d) ==
    LET g == Gcd(Abs(n), Abs(d))
        sgn == IF d < 0 THEN 0 - 1 ELSE 1
    IN [k |-> "num", n |-> sgn * (n \div g), d |-> sgn * (d \div g)]

Zero == Ratio(0, 1)

\* a as f32 / b as f32
FDiv(a, b) ==
    IF b # 0 THEN Ratio(a, b)
    ELSE IF a = 0 THEN NaN
    ELSE IF a > 0 THEN PosInf ELSE NegInf

\* x + y
FAdd(x, y) ==
    IF x.k = "nan" \/ y.k = "nan" THEN NaN
    ELSE IF x.k = "inf" /\ y.k = "inf" THEN (IF x.n = y.n THEN x ELSE NaN)
    ELSE IF x.k = "inf" THEN x
    ELSE IF y.k = "inf" THEN y
    ELSE Ratio(x.n * y.d + y.n * x.d, x.d * y.d)

\* x / len as f32, len > 0
FDivLen(x, len) ==
    IF x.k = "num" THEN Ratio(x.n, x.d * len) ELSE x

(***************************************************************************)
(* mac/system.rs: the processor list                                       *)
(***************************************************************************)
\* Offsets of the counters inside one core's CPU_STATE_MAX block of cpu_info.
User == 1
System == 2
Idle == 3
Nice == 4

\* The tick tuples <<user, system, idle, nice>> a core can report: the two
\* samples of a busy core, and the counters of a core that has not run yet.
TickFirst == <<100, 50, 850, 0>>
TickSecond == <<150, 60, 890, 0>>
TickZero == <<0, 0, 0, 0>>
TickSet == {TickFirst, TickSecond, TickZero}

\* processor::create_proc(name, data): usage starts at 0.
create_proc(name, data) == [name |-> name, cpu_usage |-> Zero, proc_data |-> data]
\* processor::set_cpu_proc / set_cpu_usage
set_cpu_proc(p, usage) == [p EXCEPT !.cpu_usage = usage]
set_cpu_usage(p, usage) == [p EXCEPT !.cpu_usage = usage]
\* processor::update_proc(p, usage, data)
update_proc(p, usage, data) == [p EXCEPT !.cpu_usage = usage, !.proc_data = data]
\* processor::get_processor_data
get_processor_data(p) == p.proc_data

\* What the OS answers to one refresh_cpu: whether sysctl(HW_NCPU) succeeds
\* and its value, whether host_processor_info succeeds and its cpu_info.
CpuProviders(n) ==
    [ncpu_ok : BOOLEAN, num_cpu : {n}, info_ok : {TRUE}, cpu_info : [1 .. n -> TickSet]]
    \cup [ncpu_ok : BOOLEAN, num_cpu : {n}, info_ok : {FALSE}, cpu_info : {<<>>}]

\* lines 213-224: usage of core i on the first refresh
first_usage(cpu_info, i) ==
    LET in_use == cpu_info[i][User] + cpu_info[i][System] + cpu_info[i][Nice]
        total == in_use + cpu_info[i][Idle]
    IN FDiv(in_use, total)

\* lines 239-262: usage of core i on a later refresh
next_usage_no_system(cpu_info, old, i) ==
    LET in_use == (cpu_info[i][User] - old[i][User])
                  + (cpu_info[i][Nice] - old[i][Nice])
        total == in_use + (cpu_info[i][Idle] - old[i][Idle])
    IN FDiv(in_use, total)

next_usage(cpu_info, old, i) ==
    LET in_use == (cpu_info[i][User] - old[i][User])
                  + (cpu_info[i][System] - old[i][System])
                  + (cpu_info[i][Nice] - old[i][Nice])
        total == in_use + (cpu_info[i][Idle] - old[i][Idle])
    IN FDiv(in_use, total)

RECURSIVE SumUsage(_, _)
\* pourcent after the loop has visited the entries 2 .. k
SumUsage(procs, k) ==
    IF k < 2 THEN Zero ELSE FAdd(SumUsage(procs, k - 1), procs[k].cpu_usage)

\* lines 210-226: the entries pushed for the cores 1 .. num_cpu
first_cores(cpu_info, num_cpu) ==
    [i \in 1 .. num_cpu |->
        set_cpu_proc(create_proc(i, cpu_info), first_usage(cpu_info, i))]

\* lines 238-266: every entry but the first is updated from the new sample
update_cores(procs, cpu_info) ==
    [k \in 1 .. Len(procs) |->
        IF k = 1 THEN procs[k]
        ELSE update_proc(procs[k],
                         next_usage(cpu_info, get_processor_data(procs[k]), k - 1),
                         cpu_info)]

\* lines 267-272: the first entry takes pourcent / (len - 1)
set_aggregate(cores) ==
    IF Len(cores) > 1
    THEN [cores EXCEPT ![1] =
            set_cpu_usage(cores[1], FDivLen(SumUsage(cores, Len(cores)), Len(cores) - 1))]
    ELSE cores

\* System::refresh_cpu, lines 184-273
refresh_cpu_of_retry(procs, p) ==
    IF Len(procs) <= 1
    THEN IF p.info_ok
         THEN <<create_proc(0, <<>>)>>
              \o first_cores(p.cpu_info, IF p.ncpu_ok THEN p.num_cpu ELSE 1)
         ELSE <<create_proc(0, <<>>)>>
    ELSE IF p.info_ok
    THEN set_aggregate(update_cores(procs, p.cpu_info))
    ELSE procs

refresh_cpu_of(procs, p) ==
    IF procs = <<>>
    THEN IF p.info_ok
         THEN <<create_proc(0, <<>>)>>
              \o first_cores(p.cpu_info, IF p.ncpu_ok THEN p.num_cpu ELSE 1)
         ELSE <<create_proc(0, <<>>)>>
    ELSE IF p.info_ok
    THEN set_aggregate(update_cores(procs, p.cpu_info))
    ELSE procs

NoCpu == [calls |-> 0, seq |-> 0, ok |-> FALSE, sample |-> <<>>, ncpu |-> 0]

\* The machine has n logical cores, the same on every call; sysctl(HW_NCPU)
\* is only made while the list is empty.
refresh_cpu ==
    /\ \E n \in 1 .. MaxCpu :
        /\ cpu_last.calls > 0 => n = cpu_last.ncpu
        /\ \E p \in CpuProviders(n) :
            /\ processors # <<>> => p.ncpu_ok
            /\ processors' = refresh_cpu_of(processors, p)
            /\ cpu_last' = [calls |-> IF cpu_last.calls < 2 THEN cpu_last.calls + 1 ELSE 2,
                            seq |-> 1 - cpu_last.seq,
                            ok |-> p.info_ok,
                            sample |-> p.cpu_info,
                            ncpu |-> n]
    /\ UNCHANGED <<netVars, procVars, memVars>>

(***************************************************************************)
(* mac/system.rs: memory and swap                                          *)
(* Byte counts are shifted to KB as soon as they are read; the KB values   *)
(* are kept at the modelled width.  uptime, which refresh_memory and       *)
(* refresh_cpu also store, is read by no property and is left out.         *)
(***************************************************************************)
\* x >> 10
ShiftKb(x) == x \div 1024

\* System.page_size_kb, line 82
page_size_kb == ShiftKb(PageSize)

SwapBytes == {k * 1024 : k \in 0 .. MaxSwapKb}
PageCounts == 0 .. MaxPages

\* What the OS answers to one refresh_memory: sysctl(VM_SWAPUSAGE) with its
\* xsw_usage, sysctl(HW_MEMSIZE), host_statistics64 with its page counters.
\* A failed call carries no values.  The values of one answer are consistent:
\* available swap is at most total swap, purgeable pages are among the
\* counted pages, and the counted pages fit in physical memory.
MemProviders ==
    {p \in [swap_ok : BOOLEAN, xsu_total : SwapBytes, xsu_avail : SwapBytes,
            mem_ok : BOOLEAN, stat_ok : BOOLEAN,
            active_count : PageCounts, inactive_count : PageCounts,
            wire_count : PageCounts, speculative_count : PageCounts,
            purgeable_count : PageCounts] :
        /\ p.xsu_avail <= p.xsu_total
        /\ ~p.swap_ok => p.xsu_total = 0
        /\ p.purgeable_count <= p.active_count + p.inactive_count
                                + p.wire_count + p.speculative_count
        /\ (p.active_count + p.inactive_count + p.wire_count + p.speculative_count)
               * page_size_kb <= ShiftKb(MemSize)
        /\ ~p.stat_ok => p.active_count + p.inactive_count + p.wire_count
                         + p.speculative_count = 0}

\* lines 102-111: the swap fields are written only when the read succeeds
refresh_swap_zeroes(sw, p) ==
    IF p.swap_ok
    THEN [swap_total |-> ShiftKb(p.xsu_total), swap_free |-> ShiftKb(p.xsu_avail)]
    ELSE [swap_total |-> 0, swap_free |-> 0]

refresh_swap(sw, p) ==
    IF p.swap_ok
    THEN [swap_total |-> ShiftKb(p.xsu_total), swap_free |-> ShiftKb(p.xsu_avail)]
    ELSE sw

\* lines 113-122: mem_total is read while it is below 1; the result of the
\* sysctl is not looked at, a failed read leaves the 0 in place.
refresh_mem_total(total, p) ==
    IF total < 1
    THEN ShiftKb(IF p.mem_ok THEN MemSize ELSE total)
    ELSE total

\* lines 141-147: the outcomes of
\* mem_total - (active + inactive + wire + speculative - purgeable) * page_size_kb
refresh_mem_free(total, p) ==
    U64Sub(total,
           ((p.active_count + p.inactive_count + p.wire_count + p.speculative_count
             - p.purgeable_count) * page_size_kb) % U64Modulus)

\* accessors, lines 349-372
get_total_memory == mem_total
get_free_memory == mem_free
get_used_memory == U64Sub(mem_total, mem_free)
get_total_swap == swap_total
get_free_swap == swap_free
get_used_swap == U64Sub(swap_total, swap_free)

NoMem == [seq |-> 0, swap_ok |-> FALSE, stat_ok |-> FALSE, panicked |-> FALSE]

\* System::refresh_memory, lines 94-150.  A panic of the subtraction ends the
\* call after the swap fields and mem_total were written.
refresh_memory ==
    /\ \E p \in MemProviders :
        LET sw == refresh_swap([swap_total |-> swap_total, swap_free |-> swap_free], p)
            total == refresh_mem_total(mem_total, p)
        IN
        /\ swap_total' = sw.swap_total
        /\ swap_free' = sw.swap_free
        /\ mem_total' = total
        /\ \E r \in (IF p.stat_ok THEN refresh_mem_free(total, p) ELSE {NoRet}) :
            /\ mem_free' = IF r.state = "returned" THEN r.value ELSE mem_free
            /\ mem_last' = [seq |-> 1 - mem_last.seq, swap_ok |-> p.swap_ok,
                            stat_ok |-> p.stat_ok, panicked |-> r.state = "panicked"]
    /\ UNCHANGED <<netVars, procVars, cpuVars>>

(***************************************************************************)
(* Specifications                                                          *)
(***************************************************************************)
Init ==
    /\ network = new
    /\ net_reads = <<>>
    /\ net_fail = FALSE
    /\ ret_income = NoRet
    /\ ret_outcome = NoRet
    /\ process_list = [q \in {} |-> Process(q, 0, FALSE)]
    /\ pc = "idle"
    /\ pending = {}
    /\ entries = {}
    /\ last = Last("none", 0, FetchNone, TRUE)
    /\ pass = NoPass
    /\ known = {}
    /\ processors = <<>>
    /\ cpu_last = NoCpu
    /\ mem_total = 0
    /\ mem_free = 0
    /\ swap_total = 0
    /\ swap_free = 0
    /\ mem_last = NoMem

NextNet == refresh_network \/ get_income \/ get_outcome
NextProc == refresh_processes \/ scan_worker \/ merge \/ refresh_process
NextCpu == refresh_cpu
NextMem == refresh_memory
Next == NextNet \/ NextProc \/ NextCpu \/ NextMem

SpecNet == Init /\ [][NextNet]_vars
SpecProc == Init /\ [][NextProc]_vars
SpecCpu == Init /\ [][NextCpu]_vars
SpecMem == Init /\ [][NextMem]_vars
Spec == Init /\ [][Next]_vars

(***************************************************************************)
(* Properties                                                                *)
(***************************************************************************)

\* C1: whenever the current total is smaller than the previous total,
\* get_income() and get_outcome() return 0 instead of underflowing.
C1_WrapReturnsZero ==
    /\ (ret_income # NoRet /\ network.current_in < network.old_in)
           => ret_income = Returned(0)
    /\ (ret_outcome # NoRet /\ network.current_out < network.old_out)
           => ret_outcome = Returned(0)

\* C2: after two consecutive successful refresh_network calls whose totals are
\* (rx1, tx1) then (rx2, tx2) with rx2 >= rx1 and tx2 >= tx1, get_income()
\* returns exactly rx2 - rx1 and get_outcome() exactly tx2 - tx1.
C2_ExactDifference ==
    (/\ Len(net_reads) = 2
     /\ net_reads[2].rx >= net_reads[1].rx
     /\ net_reads[2].tx >= net_reads[1].tx)
    => /\ get_income_of(network) = {Returned(net_reads[2].rx - net_reads[1].rx)}
       /\ get_outcome_of(network) = {Returned(net_reads[2].tx - net_reads[1].tx)}
       /\ ret_income # NoRet => ret_income = Returned(net_reads[2].rx - net_reads[1].rx)
       /\ ret_outcome # NoRet => ret_outcome = Returned(net_reads[2].tx - net_reads[1].tx)

\* Two refreshes with growing totals, rx by 2 and tx by 1, and both accessors called.
C2_Witness ==
    /\ Len(net_reads) = 2
    /\ net_reads[1].tx > 0
    /\ net_reads[2].rx = net_reads[1].rx + 2
    /\ net_reads[2].tx = net_reads[1].tx + 1
    /\ ret_income = Returned(2)
    /\ ret_outcome = Returned(1)

\* C3: after the very first successful refresh_network on a fresh NetworkData
\* the previous generation equals the current one, so get_income() and
\* get_outcome() are both 0 whatever totals were read.
C3_ColdStartZero ==
    Len(net_reads) = 1
    => /\ network.old_in = network.current_in
       /\ network.old_out = network.current_out
       /\ ret_income \in {NoRet, Returned(0)}
       /\ ret_outcome \in {NoRet, Returned(0)}

\* C4: when refresh_network runs twice in a row and the provider returns the
\* same totals both times, get_income() and get_outcome() are 0 after the
\* second call, from any prior state.
C4_Idempotent ==
    (Len(net_reads) = 2 /\ net_reads[1] = net_reads[2])
    => /\ get_income_of(network) = {Returned(0)}
       /\ get_outcome_of(network) = {Returned(0)}
       /\ ret_income \in {NoRet, Returned(0)}
       /\ ret_outcome \in {NoRet, Returned(0)}

\* The same non-zero totals read twice, and both accessors called.
C4_Witness ==
    /\ Len(net_reads) = 2
    /\ net_reads[1] = net_reads[2]
    /\ net_reads[2].rx > 0
    /\ net_reads[2].tx > 0
    /\ ret_income = Returned(0)
    /\ ret_outcome = Returned(0)

\* C5: every pid that is in the registry after one refresh_processes pass and
\* is absent from the pid list of the next pass (an empty list included) is
\* absent from the registry when that next refresh_processes returns.
C5_Eviction ==
    [][(last'.op = "refresh_processes" /\ (pass'.count < 1 \/ pass'.listed))
        => \A q \in known \ pass'.pids : q \notin DOMAIN process_list']_vars

\* C6: in a pass whose pid list holds A and B, with the fetch succeeding for A
\* and failing for B, A ends in the registry with the values fetched in this
\* pass and B ends outside the registry.
C6_PartialFailure ==
    (last.op = "refresh_processes" /\ pass.listed /\ pass.count >= 1)
    => \A a \in pass.pids, b \in pass.pids :
          (pass.fetch[a].st = "ok" /\ pass.fetch[b].st = "err")
          => /\ a \in DOMAIN process_list
             /\ process_list[a].val = pass.fetch[a].val
             /\ b \notin DOMAIN process_list

\* C7: no worker of the fan-out writes to the process registry; every insert
\* or in-place update happens in the merge phase after the workers finished.
C7_WorkersDoNotWrite ==
    [][last'.op = "scan_worker" => process_list' = process_list]_vars

\* C8: refresh_process(pid) returns false exactly when the fetch for pid
\* fails; when it returns true the registry holds pid; the entry of no other
\* pid is added, changed or evicted.
C8_SinglePid ==
    [][last'.op = "refresh_process"
        => /\ last'.ret = (last'.fetch.st = "ok")
           /\ last'.ret => last'.pid \in DOMAIN process_list'
           /\ \A q \in Pids \ {last'.pid} :
                /\ (q \in DOMAIN process_list') = (q \in DOMAIN process_list)
                /\ q \in DOMAIN process_list => process_list'[q] = process_list[q]]_vars

\* A failed refresh_process(pid) was reported while another pid, known from
\* an earlier pass, stays in the registry.
C8_Witness ==
    /\ last.op = "refresh_process"
    /\ ~last.ret
    /\ last.fetch.st = "err"
    /\ \E q \in Pids \ {last.pid} : q \in known /\ q \in DOMAIN process_list

\* C9: after the first refresh_cpu on a fresh System every processor entry,
\* the aggregate and each core, reports usage 0.0.
C9_FirstUsageZero ==
    cpu_last.calls = 1
    => \A k \in 1 .. Len(processors) : processors[k].cpu_usage = Zero

\* C10: on every refresh_cpu after the first, each core whose counters did
\* not decrease and whose total delta is positive gets usage
\* delta_busy / (delta_busy + delta_idle), and the sample just read becomes
\* the previous generation of the next refresh.
Busy(t) == t[User] + t[System] + t[Nice]

C10_DeltaUsage ==
    [][(cpu_last'.seq # cpu_last.seq /\ cpu_last'.ok /\ processors # <<>>)
        => \A k \in 2 .. Len(processors) :
            LET old == processors[k].proc_data[k - 1]
                cur == cpu_last'.sample[k - 1]
                delta_busy == Busy(cur) - Busy(old)
                delta_idle == cur[Idle] - old[Idle]
            IN ((\A c \in 1 .. 4 : cur[c] >= old[c]) /\ delta_busy + delta_idle > 0)
               => /\ processors'[k].cpu_usage = Ratio(delta_busy, delta_busy + delta_idle)
                  /\ processors'[k].proc_data = cpu_last'.sample]_vars

\* Two cores went from 100/50/0/850 to 150/60/0/890 and read 0.6.
C10_Witness ==
    /\ cpu_last.calls = 2
    /\ cpu_last.ok
    /\ Len(processors) = 3
    /\ cpu_last.sample = <<TickSecond, TickSecond>>
    /\ \A k \in 2 .. 3 :
         /\ processors[k].cpu_usage = Ratio(3, 5)
         /\ processors[k].proc_data = cpu_last.sample

\* C11: after every refresh_cpu call, the first one included, the usage of
\* the aggregate entry at index 0 equals the arithmetic mean of the usages of
\* the individual-core entries as they stand after that call.
C11_AggregateIsMean ==
    (cpu_last.calls >= 1 /\ Len(processors) > 1)
    => processors[1].cpu_usage
         = FDivLen(SumUsage(processors, Len(processors)), Len(processors) - 1)

\* C12: every per-core usage stored by refresh_cpu is a defined number in
\* [0, 1]: a zero total delta gives 0, not a division by zero, and a counter
\* that decreased counts as a delta of 0, not as a negative amount.
C12_UsageInUnitInterval ==
    \A k \in 2 .. Len(processors) :
        /\ processors[k].cpu_usage.k = "num"
        /\ processors[k].cpu_usage.n >= 0
        /\ processors[k].cpu_usage.n <= processors[k].cpu_usage.d

\* C13: after the first refresh_cpu on a machine with N logical cores the
\* list has exactly N + 1 entries, the aggregate first and then one per core,
\* and no later refresh_cpu changes their number or order.
C13_CoreCountFixed ==
    cpu_last.calls >= 1
    => /\ Len(processors) = cpu_last.ncpu + 1
       /\ \A k \in 1 .. Len(processors) : processors[k].name = k - 1

\* C20: when the per-core provider call fails during the first refresh_cpu
\* the list is left holding only the aggregate entry, and from then on no
\* refresh_cpu adds an entry or recomputes the aggregate usage, however many
\* later provider calls succeed.
C20_AggregateOnlyForever ==
    [][/\ (processors = <<>> /\ cpu_last'.calls = 1 /\ ~cpu_last'.ok)
            => Len(processors') = 1
       /\ Len(processors) = 1 => processors' = processors]_vars

\* The first provider call failed, a later one on a 2-core machine succeeded,
\* and the list still holds the aggregate alone.
C20_Witness ==
    /\ cpu_last.calls = 2
    /\ cpu_last.ok
    /\ cpu_last.ncpu = 2
    /\ Len(cpu_last.sample) = 2
    /\ Len(processors) = 1

\* C16: after every successful update_network, (old_in, old_out) equal the
\* (current_in, current_out) held immediately before the call and
\* (current_in, current_out) equal the totals just read, so the record holds
\* exactly the two most recent samples.
C16_TwoGenerations ==
    [][(network' # network \/ net_reads' # net_reads)
        => /\ network'.old_in = network.current_in
           /\ network'.old_out = network.current_out
           /\ network'.current_in = net_reads'[Len(net_reads')].rx
           /\ network'.current_out = net_reads'[Len(net_reads')].tx
           /\ Len(net_reads') = 2
                => /\ network'.old_in = net_reads'[1].rx
                   /\ network'.old_out = net_reads'[1].tx]_vars

\* Two refreshes read different totals, with rx and tx different in each.
C16_Witness ==
    /\ Len(net_reads) = 2
    /\ net_reads[1].rx # net_reads[1].tx
    /\ net_reads[2].rx # net_reads[2].tx
    /\ net_reads[1] # net_reads[2]
    /\ network.old_in = net_reads[1].rx
    /\ network.old_out = net_reads[1].tx
    /\ network.current_in = net_reads[2].rx
    /\ network.current_out = net_reads[2].tx

\* C17: when reading or parsing a raw network counter fails in a refresh
\* cycle (a statistics file is unreadable or malformed, or the interface
\* directory cannot be listed) update_network leaves old_in, old_out,
\* current_in and current_out unchanged.
C17_FailedReadKeepsData ==
    [][net_fail' => network' = network]_vars

\* C18: when the OS reports no process ids (the count is below 1) or the pid
\* list cannot be obtained, refresh_processes returns without merge and
\* without liveness sweep: the registry is left exactly as it was, entries of
\* processes that no longer exist included.
C18_EarlyReturnKeepsRegistry ==
    [][(last'.op = "refresh_processes" /\ (pass'.count < 1 \/ ~pass'.listed))
        => process_list' = process_list]_vars

\* A pass returned early; the registry still holds an entry whose marker is
\* unset (a sweep would evict it) and one whose marker is set.
C18_Witness ==
    /\ last.op = "refresh_processes"
    /\ pass.count < 1
    /\ \E q \in DOMAIN process_list : ~process_list[q].updated
    /\ \E q \in DOMAIN process_list : process_list[q].updated

\* C14: when the swap read fails during refresh_memory, swap_total and
\* swap_free keep the values they had before the call (they are not zeroed),
\* so get_total_swap, get_free_swap and get_used_swap return the same results
\* as before the call.
C14_FailedSwapReadKeepsSwap ==
    [][(mem_last'.seq # mem_last.seq /\ ~mem_last'.swap_ok)
        => /\ swap_total' = swap_total
           /\ swap_free' = swap_free
           /\ get_total_swap' = get_total_swap
           /\ get_free_swap' = get_free_swap
           /\ get_used_swap' = get_used_swap]_vars

\* A refresh_memory whose swap read failed while its page statistics were
\* read, after an earlier call had stored a swap size above zero.
C14_Witness ==
    /\ ~mem_last.swap_ok
    /\ mem_last.stat_ok
    /\ swap_total > 0
    /\ mem_total > 0

\* C15: the four memory fields (mem_total, mem_free, swap_total, swap_free)
\* are never partially updated: each refresh_memory call either installs all
\* four from one sample (every read succeeded and the call returned) or
\* changes none of them.
C15_AllOrNothing ==
    [][mem_last'.seq # mem_last.seq
        => \/ /\ mem_last'.swap_ok
              /\ mem_last'.stat_ok
              /\ ~mem_last'.panicked
              /\ mem_total' > 0
           \/ UNCHANGED <<mem_total, mem_free, swap_total, swap_free>>]_vars

\* C19: in every state reachable by refresh_memory calls mem_free <= mem_total
\* and swap_free <= swap_total, no subtraction of refresh_memory underflowed,
\* and get_used_memory and get_used_swap return the exact differences.
C19_NoUnderflow ==
    /\ mem_free <= mem_total
    /\ swap_free <= swap_total
    /\ ~mem_last.panicked
    /\ get_used_memory = {Returned(mem_total - mem_free)}
    /\ get_used_swap = {Returned(swap_total - swap_free)}

====
